---- MODULE Spec2Model ----
(***************************************************************************)
(* The license blacklist scanner (src/src/index.ts), from the point where  *)
(* the SBOM requests of all repositories have been launched (line 70) to   *)
(* the end of run() (line 218).                                            *)
(*                                                                         *)
(* Strings are sequences of tokens.  License strings are spelled character *)
(* by character, because the code rewrites them (replace(/ /g, "-")); the  *)
(* fixed chunks of the template literals, and package names, versions and  *)
(* repository names, which the code only copies and compares, are one      *)
(* token each.  The backtick cannot be written in a TLA+ string: the token *)
(* "<tick>" stands for one backtick and "<fence>" for three.               *)
(*                                                                         *)
(* An optional value (a field that may be undefined) is a record           *)
(* [some, val].  A value whose run time type matters (the license field of *)
(* the registry's metadata, cast with "as string | undefined" on line 28)  *)
(* is a record [type, val].                                                *)
(***************************************************************************)
EXTENDS Integers, Sequences, FiniteSets, TLC

VARIABLES
    orgRepos,        \* line 59: the repositories to scan, in listing order
    blacklist,       \* line 36: licenseBlacklist.split(",")
    slackWebhookUrl, \* line 10: whether SLACK_WEBHOOK_URL is set
    sboms,           \* per repository, the packages of its SBOM and, per
                     \* package, what the registry answers for it
    fetchSt,         \* per repository, the state of its SBOM request
    lookupSt,        \* per repository and kept package, the state of the
                     \* registry lookup ("none" when none was started)
    pkgValues,       \* line 82: the inner Promise.all's array of values
    repoSt,          \* per repository, the state of the promise of line 80
    repoValues,      \* line 70: the outer Promise.all's array of values
    phase,           \* "ingest", "joined" (line 70 resolved), "done" (run()
                     \* returned), "error" (run() rejected)
    pkgsByRepo,      \* line 70
    blacklistMap,    \* line 104
    noLicenseMap,    \* line 105
    slackMdProblems, \* line 205
    stdout,          \* what console.log printed (line 207)
    webhookPosts,    \* the bodies posted to the webhook (line 211)
    raced            \* history: some promise resolved before one that
                     \* precedes it in its Promise.all

vars == <<orgRepos, blacklist, slackWebhookUrl, sboms, fetchSt, lookupSt,
          pkgValues, repoSt, repoValues, phase, pkgsByRepo, blacklistMap,
          noLicenseMap, slackMdProblems, stdout, webhookPosts, raced>>

-----------------------------------------------------------------------------
(* Bounds *)

\* The longest SBOM package list of the concurrent runs (Spec).
MaxPkgs == 2
\* The longest SBOM package list of the single-repository runs (SpecIngest).
MaxEntries == 2

-----------------------------------------------------------------------------
(* Strings and optional values *)

None == [some |-> FALSE, val |-> <<>>]
Some(s) == [some |-> TRUE, val |-> s]

Str(s) == [type |-> "string", val |-> s]
Obj == [type |-> "object", val |-> <<>>]

Unknown == <<"U", "n", "k", "n", "o", "w", "n">>
MissingVersionData == <<"Missing version data">>
Main == <<"main">>

RECURSIVE Join(_, _)
\* Array.prototype.join: the strings of xs with sep between them.
Join(xs, sep) ==
    IF xs = <<>> THEN <<>>
    ELSE IF Len(xs) = 1 THEN xs[1]
    ELSE xs[1] \o sep \o Join(Tail(xs), sep)

\* sub occurs in s as a substring.
Contains(s, sub) ==
    \E i \in 1..(Len(s) - Len(sub) + 1) : SubSeq(s, i, i + Len(sub) - 1) = sub

\* The position of the first occurrence of sub in s, 0 when there is none.
IndexOf(s, sub) ==
    IF Contains(s, sub)
    THEN CHOOSE i \in 1..(Len(s) - Len(sub) + 1) :
            /\ SubSeq(s, i, i + Len(sub) - 1) = sub
            /\ \A j \in 1..(i - 1) : SubSeq(s, j, j + Len(sub) - 1) # sub
    ELSE 0

\* All sequences over S of length at most n.
RECURSIVE SeqsUpTo(_, _)
SeqsUpTo(S, n) ==
    IF n = 0 THEN {<<>>}
    ELSE LET shorter == SeqsUpTo(S, n - 1)
         IN shorter \cup {Append(s, x) : s \in {t \in shorter : Len(t) = n - 1}, x \in S}

-----------------------------------------------------------------------------
(* License resolution, lines 23-29 and 86-90 *)

\* String.prototype.replace(/ /g, "-") with only its first match replaced.
ReplaceFirstSpace(s) ==
    IF \E i \in 1..Len(s) : s[i] = " "
    THEN LET i == CHOOSE k \in 1..Len(s) : s[k] = " " /\ \A j \in 1..(k - 1) : s[j] # " "
         IN [s EXCEPT ![i] = "-"]
    ELSE s

RECURSIVE ReplaceSpaces(_)
\* line 90: .replace(/ /g, "-")
ReplaceSpaces(s) ==
    IF s = <<>> THEN <<>>
    ELSE <<(IF Head(s) = " " THEN "-" ELSE Head(s))>> \o ReplaceSpaces(Tail(s))

\* The left operand of || is passed over: undefined and the empty string.
IsFalsy(opt) == ~opt.some \/ opt.val = <<>>

\* line 88: the left operand of ?? is passed over exactly when it is
\* undefined (or null).
IsNullish(opt) == ~opt.some

\* lines 23-29: what resolveLicenseFromNPM's promise resolves to, for each
\* thing the registry can do.  "error": packageJson rejects (network error,
\* package or version not found); "undefined" and "null": metadata without a
\* license; "string" and "object": the metadata's license field, as it is.
resolveLicenseFromNPM(registry) ==
    CASE registry.kind = "error" -> Str(Unknown)
      [] registry.kind \in {"undefined", "null"} -> Str(Unknown)
      [] registry.kind = "string" -> Str(registry.val)
      [] OTHER -> Obj

\* line 90: calling .replace on a value that is no string throws TypeError.
ReplaceThrows(v) == v.type # "string"

\* lines 92-96
PackageData(entry, license) ==
    [name |-> entry.name.val,
     version |-> IF entry.versionInfo.some THEN entry.versionInfo.val
                 ELSE MissingVersionData,
     license |-> license]

\* line 84: pkg.name && pkg.versionInfo !== "main"
Keep(pkg) ==
    /\ pkg.name.some /\ pkg.name.val # <<>>
    /\ ~(pkg.versionInfo.some /\ pkg.versionInfo.val = Main)

\* lines 83-84
FilterPackages(packages) == SelectSeq(packages, Keep)

-----------------------------------------------------------------------------
(* Promise.all, lines 70 and 82 *)

Pending(v) == [filled |-> FALSE, val |-> v]
Filled(v) == [filled |-> TRUE, val |-> v]

AllFilled(values) == \A i \in 1..Len(values) : values[i].filled
\* A value is there while one before it is still awaited.
OutOfOrder(values) ==
    \E j, k \in 1..Len(values) : j < k /\ ~values[j].filled /\ values[k].filled
Values(values) == [i \in 1..Len(values) |-> values[i].val]

\* The values collected in the order the promises resolve.
PromiseAllInCompletionOrder(values, idx, v) ==
    IF AllFilled(values) THEN values
    ELSE LET i == CHOOSE k \in 1..Len(values) :
                     ~values[k].filled /\ \A j \in 1..(k - 1) : values[j].filled
         IN [values EXCEPT ![i] = Filled(v)]

\* Promise.all keeps the value of its idx-th promise at index idx of its
\* result, whenever that promise resolves.
PromiseAllResolve(values, idx, v) == [values EXCEPT ![idx] = Filled(v)]

NoPackageData == [name |-> <<>>, version |-> <<>>, license |-> <<>>]
NoRepoResult == [repo |-> <<>>, packages |-> <<>>]

-----------------------------------------------------------------------------
(* The aggregation maps, lines 104-130.  A Map is the sequence of its      *)
(* [k, v] entries in insertion order.                                      *)

MapHas(map, key) == \E i \in 1..Len(map) : map[i].k = key
MapGet(map, key) == map[CHOOSE i \in 1..Len(map) : map[i].k = key].v
MapSet(map, key, value) ==
    IF MapHas(map, key)
    THEN [i \in 1..Len(map) |-> IF map[i].k = key THEN [k |-> key, v |-> value]
                                 ELSE map[i]]
    ELSE Append(map, [k |-> key, v |-> value])

\* insertPkgIntoMap without the test of line 115: the list is set anew.
insertPkgIntoMapNoHas(repo, pkg, map) ==
    LET m1 == IF ~MapHas(map, pkg.name) THEN MapSet(map, pkg.name, <<>>) ELSE map
        m2 == MapSet(MapGet(m1, pkg.name), pkg.license, <<>>)
        m3 == MapSet(m2, pkg.license,
                     Append(MapGet(m2, pkg.license), [repo |-> repo, version |-> pkg.version]))
    IN MapSet(m1, pkg.name, m3)

\* insertPkgIntoMap pushing only a (repo, version) the list does not hold.
insertPkgIntoMapDedup(repo, pkg, map) ==
    LET m1 == IF ~MapHas(map, pkg.name) THEN MapSet(map, pkg.name, <<>>) ELSE map
        inner == MapGet(m1, pkg.name)
        m2 == IF ~MapHas(inner, pkg.license) THEN MapSet(inner, pkg.license, <<>>) ELSE inner
        old == MapGet(m2, pkg.license)
        new == [repo |-> repo, version |-> pkg.version]
        m3 == MapSet(m2, pkg.license,
                     IF \E i \in 1..Len(old) : old[i] = new THEN old ELSE Append(old, new))
    IN MapSet(m1, pkg.name, m3)

\* lines 106-119
insertPkgIntoMap(repo, pkg, map) ==
    LET m1 == IF ~MapHas(map, pkg.name) THEN MapSet(map, pkg.name, <<>>) ELSE map
        inner == MapGet(m1, pkg.name)
        m2 == IF ~MapHas(inner, pkg.license) THEN MapSet(inner, pkg.license, <<>>) ELSE inner
        m3 == MapSet(m2, pkg.license,
                     Append(MapGet(m2, pkg.license), [repo |-> repo, version |-> pkg.version]))
    IN MapSet(m1, pkg.name, m3)

\* line 126: blacklist.includes(license)
Includes(list, x) == \E i \in 1..Len(list) : list[i] = x

\* lines 122-129: the body of the inner forEach, on the pair of maps.
InsertPkg(maps, bl, repo, pkg) ==
    LET noLicense == IF pkg.license = Unknown
                     THEN insertPkgIntoMap(repo, pkg, maps.noLicenseMap)
                     ELSE maps.noLicenseMap
        black == IF Includes(bl, pkg.license)
                 THEN insertPkgIntoMap(repo, pkg, maps.blacklistMap)
                 ELSE maps.blacklistMap
    IN [blacklistMap |-> black, noLicenseMap |-> noLicense]

RECURSIVE InsertPackages(_, _, _, _)
\* line 122: packages.forEach
InsertPackages(maps, bl, repo, packages) ==
    IF packages = <<>> THEN maps
    ELSE InsertPackages(InsertPkg(maps, bl, repo, Head(packages)), bl, repo, Tail(packages))

RECURSIVE InsertRepos(_, _, _)
\* line 121: pkgsByRepo.forEach
InsertRepos(maps, bl, results) ==
    IF results = <<>> THEN maps
    ELSE InsertRepos(InsertPackages(maps, bl, Head(results).repo, Head(results).packages),
                     bl, Tail(results))

\* lines 104-130
Aggregate(results, bl) ==
    InsertRepos([blacklistMap |-> <<>>, noLicenseMap |-> <<>>], bl, results)

\* lines 133-140
arraifyMap(map) ==
    [i \in 1..Len(map) |->
        [name |-> map[i].k,
         licenses |-> [j \in 1..Len(map[i].v) |->
                          [license |-> map[i].v[j].k, repos |-> map[i].v[j].v]]]]

-----------------------------------------------------------------------------
(* Rendering, lines 146-205 *)

\* line 7: GH_ORG_URL
OrgUrl == <<"https://github.com/acme">>

Blacklisted == <<"blacklisted">>
Missing == <<"missing">>

\* line 157
MdRepo(x) ==
    <<"[<fence>">> \o x.repo \o <<"<fence>](">> \o OrgUrl \o <<"/">> \o x.repo
        \o <<") @ ">> \o x.version

\* line 179
SlackRepo(x) ==
    <<"<tick>">> \o x.repo \o <<"<tick> (<">> \o OrgUrl \o <<"/">> \o x.repo
        \o <<"|link>) @ ">> \o x.version

\* An array of strings inside a template literal: its elements joined by ",".
ArrayToString(xs) == Join(xs, <<",">>)

\* lines 160-164: the row of the idx-th license (from 0) of package name
MdRow(name, l, idx) ==
    LET repos == ArrayToString([i \in 1..Len(l.repos) |-> MdRepo(l.repos[i])])
    IN IF idx < 1
       THEN <<"| <fence>">> \o name \o <<"<fence> | ">> \o l.license \o <<" | ">>
                \o repos \o <<" |">>
       ELSE <<"| | ">> \o l.license \o <<" | ">> \o repos \o <<" |">>

\* lines 182-184
SlackRow(name, l, idx) ==
    LET repos == ArrayToString([i \in 1..Len(l.repos) |-> SlackRepo(l.repos[i])])
    IN IF idx < 1
       THEN <<"*">> \o name \o <<" - ">> \o l.license \o <<"*\n - ">> \o repos
       ELSE <<"- ">> \o repos

\* lines 151-166: the rows of one package
MdRows(pkg) == [j \in 1..Len(pkg.licenses) |-> MdRow(pkg.name, pkg.licenses[j], j - 1)]

\* lines 173-186
SlackRows(pkg) == [j \in 1..Len(pkg.licenses) |-> SlackRow(pkg.name, pkg.licenses[j], j - 1)]

MdHeader(category) == <<"### Dependencies with ">> \o category \o <<" licenses\n">>
SlackHeader(category) == <<"Dependencies with ">> \o category \o <<" licenses:\n\n">>
Trailer == <<"Please remove these dependencies.">>

\* lines 146-168
generateMDFromPkgs(category, pkgs) ==
    MdHeader(category)
        \o <<"| Package Name | License | Repositories Affected |\n">>
        \o <<"| --- | --- | --- |\n">>
        \o Join([i \in 1..Len(pkgs) |-> Join(MdRows(pkgs[i]), <<"\n">>)], <<"\n">>)
        \o <<"\n\n">> \o Trailer

\* lines 170-188
generateSlackMdFromPkgs(category, pkgs) ==
    SlackHeader(category)
        \o Join([i \in 1..Len(pkgs) |-> Join(SlackRows(pkgs[i]), <<"\n">>)], <<"\n\n">>)
        \o <<"\n\n">> \o Trailer

MdBanner == <<"<fence>license-scanner<fence> has detected dependency licensing issues:">>
SlackBanner == <<"*License Blacklist Scanner Results*">>

\* The Markdown components with the two sections pushed in the other order.
mdComponentsMissingFirst(blacklistPkgs, noLicensePkgs) ==
    <<MdBanner>>
        \o (IF Len(noLicensePkgs) > 0
            THEN <<generateMDFromPkgs(Missing, noLicensePkgs)>> ELSE <<>>)
        \o (IF Len(blacklistPkgs) > 0
            THEN <<generateMDFromPkgs(Blacklisted, blacklistPkgs)>> ELSE <<>>)

\* lines 190-202: mdComponents
mdComponents(blacklistPkgs, noLicensePkgs) ==
    <<MdBanner>>
        \o (IF Len(blacklistPkgs) > 0
            THEN <<generateMDFromPkgs(Blacklisted, blacklistPkgs)>> ELSE <<>>)
        \o (IF Len(noLicensePkgs) > 0
            THEN <<generateMDFromPkgs(Missing, noLicensePkgs)>> ELSE <<>>)

\* lines 193-202: slackMdComponents
slackMdComponents(blacklistPkgs, noLicensePkgs) ==
    <<SlackBanner>>
        \o (IF Len(blacklistPkgs) > 0
            THEN <<generateSlackMdFromPkgs(Blacklisted, blacklistPkgs)>> ELSE <<>>)
        \o (IF Len(noLicensePkgs) > 0
            THEN <<generateSlackMdFromPkgs(Missing, noLicensePkgs)>> ELSE <<>>)

\* line 204
mdProblemsOf(maps) ==
    Join(mdComponents(arraifyMap(maps.blacklistMap), arraifyMap(maps.noLicenseMap)),
         <<"\n\n">>)

\* line 205
slackMdProblemsOf(maps) ==
    Join(slackMdComponents(arraifyMap(maps.blacklistMap), arraifyMap(maps.noLicenseMap)),
         <<"\n\n">>)

-----------------------------------------------------------------------------
(* The inputs: SBOM package entries and the registry's answers *)

Foo == <<"foo">>
Bar == <<"bar">>
V1 == <<"1.0.0">>
V2 == <<"2.0.0">>
RepoA == <<"repo-a">>
RepoB == <<"repo-b">>

GnuGpl3 == <<"G", "N", "U", " ", "G", "P", "L", " ", "3">>
GnuGpl3Id == <<"G", "N", "U", "-", "G", "P", "L", "-", "3">>
Agpl == <<"A", "G", "P", "L">>
Mit == <<"M", "I", "T">>

RegError == [kind |-> "error", val |-> <<>>]
RegUndefined == [kind |-> "undefined", val |-> <<>>]
RegNull == [kind |-> "null", val |-> <<>>]
RegString(s) == [kind |-> "string", val |-> s]
RegObject == [kind |-> "object", val |-> <<>>]

\* An SBOM package entry (name, versionInfo, licenseConcluded) with what the
\* registry does when asked for that package.
Entry(name, versionInfo, licenseConcluded, registry) ==
    [name |-> name, versionInfo |-> versionInfo,
     licenseConcluded |-> licenseConcluded, registry |-> registry]

\* The entries of the concurrent runs.
RunEntries ==
    { Entry(Some(Foo), Some(V1), Some(GnuGpl3), RegObject),
      Entry(Some(Foo), Some(V1), None, RegError),
      Entry(Some(Bar), Some(V2), None, RegString(GnuGpl3)),
      Entry(Some(Bar), Some(V2), None, RegObject) }

\* The entries of the single-repository runs.
IngestEntries ==
    { Entry(Some(Foo), Some(V1), Some(GnuGpl3), RegObject),
      Entry(Some(Foo), Some(V1), Some(Agpl), RegError),
      Entry(Some(Foo), Some(V2), Some(<<>>), RegString(Mit)),
      Entry(Some(Bar), Some(V1), Some(Unknown), RegString(Mit)),
      Entry(Some(Foo), Some(V1), None, RegError),
      Entry(Some(Foo), Some(V1), None, RegUndefined),
      Entry(Some(Foo), Some(V1), None, RegNull),
      Entry(Some(Foo), Some(V1), None, RegString(<<>>)),
      Entry(Some(Foo), Some(V1), None, RegString(GnuGpl3)),
      Entry(Some(Foo), Some(V1), None, RegObject),
      Entry(Some(Bar), None, None, RegError),
      Entry(None, Some(V1), Some(GnuGpl3), RegError),
      Entry(Some(<<>>), Some(V1), Some(GnuGpl3), RegError),
      Entry(Some(Foo), Some(Main), Some(GnuGpl3), RegError),
      Entry(Some(Foo), Some(Main), None, RegError) }

Blacklists == { <<GnuGpl3Id, Agpl>>, <<GnuGpl3Id, Unknown>> }

Repos == 1..Len(orgRepos)

-----------------------------------------------------------------------------
(* The run *)

InitWith(repos, entries, maxLen, webhooks) ==
    /\ orgRepos = repos
    /\ blacklist \in Blacklists
    /\ slackWebhookUrl \in webhooks
    /\ sboms \in [1..Len(repos) -> SeqsUpTo(entries, maxLen)]
    /\ fetchSt = [r \in 1..Len(repos) |-> "pending"]
    /\ lookupSt = [r \in 1..Len(repos) |-> <<>>]
    /\ pkgValues = [r \in 1..Len(repos) |-> <<>>]
    /\ repoSt = [r \in 1..Len(repos) |-> "pending"]
    /\ repoValues = [r \in 1..Len(repos) |-> Pending(NoRepoResult)]
    /\ phase = "ingest"
    /\ pkgsByRepo = <<>>
    /\ blacklistMap = <<>>
    /\ noLicenseMap = <<>>
    /\ slackMdProblems = <<>>
    /\ stdout = <<>>
    /\ webhookPosts = <<>>
    /\ raced = FALSE

\* Two repositories, the fewest whose requests and lookups can complete in
\* another order than the listing's; SLACK_WEBHOOK_URL is set.
Init == InitWith(<<RepoA, RepoB>>, RunEntries, MaxPkgs, {TRUE})

\* One repository, with every kind of entry and of registry answer.
InitIngest == InitWith(<<RepoA>>, IngestEntries, MaxEntries, BOOLEAN)

RECURSIVE ResolveDeclared(_, _, _)
\* lines 85-97, for the entries whose callback never awaits: they resolve,
\* in SBOM order, while the map of line 85 runs.
ResolveDeclared(values, kept, i) ==
    IF i > Len(kept) THEN values
    ELSE ResolveDeclared(
            IF IsNullish(kept[i].licenseConcluded) THEN values
            ELSE PromiseAllResolve(values, i,
                    PackageData(kept[i], ReplaceSpaces(kept[i].licenseConcluded.val))),
            kept, i + 1)

\* The promise of repository r (lines 72-99) and the promise of line 70,
\* after repository r's values became `values`, or one of its callbacks
\* threw: a Promise.all resolves when all its promises have, and rejects
\* with the first that does; run() rejects with it.
Settle(r, values, threw) ==
    LET st == IF repoSt[r] # "pending" THEN repoSt[r]
              ELSE IF threw THEN "rejected"
              ELSE IF AllFilled(values) THEN "fulfilled"
              ELSE "pending"
        results == IF repoSt[r] = "pending" /\ st = "fulfilled"
                   THEN PromiseAllResolve(repoValues, r,
                            [repo |-> orgRepos[r], packages |-> Values(values)])
                   ELSE repoValues
    IN /\ pkgValues' = [pkgValues EXCEPT ![r] = values]
       /\ repoSt' = [repoSt EXCEPT ![r] = st]
       /\ repoValues' = results
       /\ phase' = IF phase # "ingest" THEN phase
                   ELSE IF st = "rejected" THEN "error"
                   ELSE IF AllFilled(results) THEN "joined"
                   ELSE "ingest"
       /\ raced' = (raced \/ OutOfOrder(values) \/ OutOfOrder(results))

\* lines 72-77 with the rejection swallowed: the repository counts as one
\* without packages.
FetchFailIsolated(r) ==
    /\ fetchSt[r] = "pending"
    /\ fetchSt' = [fetchSt EXCEPT ![r] = "failed"]
    /\ Settle(r, <<>>, FALSE)
    /\ UNCHANGED <<orgRepos, blacklist, slackWebhookUrl, sboms, lookupSt, pkgsByRepo,
                   blacklistMap, noLicenseMap, slackMdProblems, stdout, webhookPosts>>

\* lines 72-79: the SBOM request of repository r fails; the catch handler
\* throws, the then handler of line 80 is skipped.
FetchFail(r) ==
    /\ fetchSt[r] = "pending"
    /\ fetchSt' = [fetchSt EXCEPT ![r] = "failed"]
    /\ Settle(r, pkgValues[r], TRUE)
    /\ UNCHANGED <<orgRepos, blacklist, slackWebhookUrl, sboms, lookupSt, pkgsByRepo,
                   blacklistMap, noLicenseMap, slackMdProblems, stdout, webhookPosts>>

\* lines 80-99: the SBOM of repository r arrives.  The entries are filtered;
\* an entry with a declared license gets its finding at once, the others
\* start a registry lookup.
FetchOk(r) ==
    /\ fetchSt[r] = "pending"
    /\ fetchSt' = [fetchSt EXCEPT ![r] = "ok"]
    /\ LET kept == FilterPackages(sboms[r])
       IN /\ lookupSt' = [lookupSt EXCEPT ![r] =
                [i \in 1..Len(kept) |->
                    IF IsNullish(kept[i].licenseConcluded) THEN "pending" ELSE "none"]]
          /\ Settle(r, ResolveDeclared([i \in 1..Len(kept) |-> Pending(NoPackageData)],
                                       kept, 1),
                    FALSE)
    /\ UNCHANGED <<orgRepos, blacklist, slackWebhookUrl, sboms, pkgsByRepo,
                   blacklistMap, noLicenseMap, slackMdProblems, stdout, webhookPosts>>

\* lines 23-29 and 87-96: the registry lookup of the i-th kept entry of
\* repository r completes; the callback of line 85 resumes.
LookupDone(r, i) ==
    /\ fetchSt[r] = "ok"
    /\ i \in 1..Len(lookupSt[r])
    /\ lookupSt[r][i] = "pending"
    /\ lookupSt' = [lookupSt EXCEPT ![r][i] = "done"]
    /\ LET entry == FilterPackages(sboms[r])[i]
           v == resolveLicenseFromNPM(entry.registry)
       IN IF ReplaceThrows(v)
          THEN Settle(r, pkgValues[r], TRUE)
          ELSE Settle(r, PromiseAllResolve(pkgValues[r], i,
                             PackageData(entry, ReplaceSpaces(v.val))),
                      FALSE)
    /\ UNCHANGED <<orgRepos, blacklist, slackWebhookUrl, sboms, fetchSt, pkgsByRepo,
                   blacklistMap, noLicenseMap, slackMdProblems, stdout, webhookPosts>>

\* lines 101-217: run() resumes after the await of line 70 and runs to its
\* end without another await.
Report ==
    /\ phase = "joined"
    /\ phase' = "done"
    /\ LET results == Values(repoValues)
           maps == Aggregate(results, blacklist)
       IN /\ pkgsByRepo' = results
          /\ blacklistMap' = maps.blacklistMap
          /\ noLicenseMap' = maps.noLicenseMap
          /\ slackMdProblems' = slackMdProblemsOf(maps)
          /\ stdout' = Append(stdout, mdProblemsOf(maps))
          /\ webhookPosts' = IF slackWebhookUrl
                             THEN Append(webhookPosts, slackMdProblemsOf(maps))
                             ELSE webhookPosts
    /\ UNCHANGED <<orgRepos, blacklist, slackWebhookUrl, sboms, fetchSt, lookupSt,
                   pkgValues, repoSt, repoValues, raced>>

Next ==
    \/ \E r \in Repos : FetchOk(r)
    \/ \E r \in Repos : FetchFail(r)
    \/ \E r \in Repos : \E i \in DOMAIN lookupSt[r] : LookupDone(r, i)
    \/ Report

Spec == Init /\ [][Next]_vars

SpecIngest == InitIngest /\ [][Next]_vars

-----------------------------------------------------------------------------
(* What the properties below speak of *)

\* The entries of repository r's SBOM that pass the filter, in SBOM order.
Kept(r) == FilterPackages(sboms[r])

\* s with every space replaced by a hyphen and nothing else changed.
Hyphenated(s) == [k \in 1..Len(s) |-> IF s[k] = " " THEN "-" ELSE s[k]]

SomeFetchFailed == \E r \in Repos : fetchSt[r] = "failed"

NothingReported ==
    /\ pkgsByRepo = <<>>
    /\ blacklistMap = <<>>
    /\ noLicenseMap = <<>>
    /\ slackMdProblems = <<>>
    /\ stdout = <<>>
    /\ webhookPosts = <<>>

\* The finding of one kept entry when nothing runs concurrently.
IngestEntry(entry) ==
    PackageData(entry,
        ReplaceSpaces(IF IsNullish(entry.licenseConcluded)
                      THEN resolveLicenseFromNPM(entry.registry).val
                      ELSE entry.licenseConcluded.val))

\* The Repository Results of ingesting the repositories one at a time, in
\* listing order, and the packages of each in SBOM order.
SequentialIngest ==
    [r \in Repos |->
        [repo |-> orgRepos[r],
         packages |-> [i \in 1..Len(Kept(r)) |-> IngestEntry(Kept(r)[i])]]]

RECURSIVE FlatFindings(_)
\* Every finding of a list of Repository Results, with its repository, in
\* the order of the list.
FlatFindings(results) ==
    IF results = <<>> THEN <<>>
    ELSE [i \in 1..Len(Head(results).packages) |->
             [repo |-> Head(results).repo, pkg |-> Head(results).packages[i]]]
         \o FlatFindings(Tail(results))

\* The (repo, version) of the findings of package `name` under `license`,
\* one per occurrence.
Occurrences(results, name, license) ==
    LET Hit(f) == f.pkg.name = name /\ f.pkg.license = license
        hits == SelectSeq(FlatFindings(results), Hit)
    IN [i \in 1..Len(hits) |-> [repo |-> hits[i].repo, version |-> hits[i].pkg.version]]

HasKey(map, name, license) == MapHas(map, name) /\ MapHas(MapGet(map, name), license)
EntriesOf(map, name, license) == MapGet(MapGet(map, name), license)

\* The (name, license) keys of a map.
KeysOf(map) ==
    UNION {{<<map[i].k, map[i].v[j].k>> : j \in 1..Len(map[i].v)} : i \in 1..Len(map)}

\* The (name, license) pairs of the findings of a list of Repository Results.
FindingKeys(results) ==
    {<<FlatFindings(results)[i].pkg.name, FlatFindings(results)[i].pkg.license>> :
        i \in 1..Len(FlatFindings(results))}

\* How many times x occurs in list.
CountIn(list, x) == Cardinality({i \in 1..Len(list) : list[i] = x})

\* Two maps with the same keys and, under each key, the same entries as
\* often, in whatever order.
SameContent(m1, m2) ==
    /\ KeysOf(m1) = KeysOf(m2)
    /\ \A key \in KeysOf(m1) :
         LET l1 == EntriesOf(m1, key[1], key[2])
             l2 == EntriesOf(m2, key[1], key[2])
         IN /\ Len(l1) = Len(l2)
            /\ \A i \in 1..Len(l1) : CountIn(l1, l1[i]) = CountIn(l2, l1[i])

\* No key twice: package names in the map, licenses under a package.
KeysUnique(map) ==
    /\ \A i, j \in 1..Len(map) : map[i].k = map[j].k => i = j
    /\ \A i \in 1..Len(map) :
         \A a, b \in 1..Len(map[i].v) : map[i].v[a].k = map[i].v[b].k => a = b

StartsWith(s, prefix) == Len(s) >= Len(prefix) /\ SubSeq(s, 1, Len(prefix)) = prefix

-----------------------------------------------------------------------------
(* C1 *)

\* C1: once the SBOM request of some repository has failed, the run is in
\* its error state whatever the other requests did: no list of Repository
\* Results, no aggregation map, nothing printed, nothing posted.
C1_FetchFailureAbortsRun ==
    SomeFetchFailed => phase = "error" /\ NothingReported

\* C1, witness: one request failed and another repository's ingestion succeeded with
\* findings.
C1_Witness ==
    \E r, q \in Repos :
        /\ fetchSt[r] = "failed"
        /\ repoSt[q] = "fulfilled"
        /\ Len(pkgValues[q]) > 0

-----------------------------------------------------------------------------
(* C2 *)

\* C2: a registry lookup that fails, or finds no usable license, gives the
\* finding the license "Unknown", and only a failed SBOM request puts the
\* run in its error state.
C2_LicenseResolutionFailsOpen ==
    /\ \A r \in Repos : \A i \in DOMAIN lookupSt[r] :
         (/\ lookupSt[r][i] = "done"
          /\ Kept(r)[i].registry.kind \in {"error", "undefined", "null", "object"})
         => /\ pkgValues[r][i].filled
            /\ pkgValues[r][i].val.license = Unknown
    /\ phase = "error" => SomeFetchFailed

-----------------------------------------------------------------------------
(* C3 *)

\* C3: the finding of an entry with a declared license holds that license
\* with every space replaced by a hyphen and nothing else changed, whatever
\* the registry would answer for the package.
C3_DeclaredLicenseHyphenated ==
    \A r \in Repos : fetchSt[r] = "ok" =>
        \A i \in 1..Len(Kept(r)) : Kept(r)[i].licenseConcluded.some =>
            /\ pkgValues[r][i].filled
            /\ pkgValues[r][i].val.license = Hyphenated(Kept(r)[i].licenseConcluded.val)
            /\ phase = "done" =>
                 pkgsByRepo[r].packages[i].license
                     = Hyphenated(Kept(r)[i].licenseConcluded.val)

\* C3, witness: a declared license with two spaces, for a package whose registry
\* metadata would make the fallback throw, is in a finding.
C3_Witness ==
    \E r \in Repos : fetchSt[r] = "ok" /\
        \E i \in 1..Len(Kept(r)) :
            /\ Kept(r)[i].licenseConcluded = Some(GnuGpl3)
            /\ Kept(r)[i].registry = RegObject
            /\ pkgValues[r][i] = Filled([name |-> Foo, version |-> V1, license |-> GnuGpl3Id])

-----------------------------------------------------------------------------
(* C4 *)

\* What the registry fallback gives as license.
FallbackLicense(registry) ==
    IF registry.kind = "string" THEN Hyphenated(registry.val) ELSE Unknown

\* C4 as stated: the finding of an entry whose declared license is absent or
\* empty has the registry fallback's license, never the empty string.
C4_EmptyDeclaredFallsBack ==
    \A r \in Repos : fetchSt[r] = "ok" =>
        \A i \in 1..Len(Kept(r)) :
            (IsFalsy(Kept(r)[i].licenseConcluded) /\ pkgValues[r][i].filled) =>
                /\ pkgValues[r][i].val.license = FallbackLicense(Kept(r)[i].registry)
                /\ pkgValues[r][i].val.license # <<>>

\* C4 as amended: a declared license is used whenever it is present, the
\* empty string included, and no lookup is made; only an absent one makes
\* the finding's license the registry's license string, hyphenated (which may
\* be empty), or "Unknown" when the lookup fails or finds none; a registry
\* license that is no string leaves the entry without finding.
C4_DeclaredUsedWhenPresent ==
    \A r \in Repos : fetchSt[r] = "ok" =>
        \A i \in 1..Len(Kept(r)) :
            LET entry == Kept(r)[i]
                slot == pkgValues[r][i]
            IN IF entry.licenseConcluded.some
               THEN /\ lookupSt[r][i] = "none"
                    /\ slot.filled
                    /\ slot.val.license = Hyphenated(entry.licenseConcluded.val)
               ELSE /\ lookupSt[r][i] # "none"
                    /\ slot.filled <=>
                         (lookupSt[r][i] = "done" /\ entry.registry.kind # "object")
                    /\ slot.filled =>
                         slot.val.license = FallbackLicense(entry.registry)

\* C4, witness: an entry whose declared license is the empty string has its finding, with
\* the empty license, and no lookup was started for it.
C4_Witness ==
    \E r \in Repos : fetchSt[r] = "ok" /\
        \E i \in 1..Len(Kept(r)) :
            /\ Kept(r)[i].licenseConcluded = Some(<<>>)
            /\ Kept(r)[i].registry = RegString(Mit)
            /\ lookupSt[r][i] = "none"
            /\ pkgValues[r][i].filled
            /\ pkgValues[r][i].val.license = <<>>

-----------------------------------------------------------------------------
(* C5 *)

\* `map` holds, under each (name, license) of a finding that `member`
\* selects, one (repo, version) per occurrence, and nothing else.
HoldsExactly(map, results, member(_)) ==
    /\ KeysUnique(map)
    /\ KeysOf(map) = {key \in FindingKeys(results) : member(key[2])}
    /\ \A key \in KeysOf(map) :
         EntriesOf(map, key[1], key[2]) = Occurrences(results, key[1], key[2])

\* C5: after aggregation a finding is in the blacklist map exactly when its
\* license is on the blacklist, and in the unknown map exactly when its
\* license is "Unknown"; each key holds one (repo, version) per occurrence.
C5_MapsHoldEveryOccurrence ==
    phase = "done" =>
        LET OnBlacklist(l) == Includes(blacklist, l)
            IsUnknown(l) == l = Unknown
        IN /\ HoldsExactly(blacklistMap, pkgsByRepo, OnBlacklist)
           /\ HoldsExactly(noLicenseMap, pkgsByRepo, IsUnknown)
           /\ ~Includes(blacklist, Unknown) =>
                \A key \in KeysOf(blacklistMap) : key[2] # Unknown

\* C5, witness: one key of the blacklist map holds the same (repo, version) twice and an
\* occurrence in another repository.
C5_Witness ==
    /\ phase = "done"
    /\ HasKey(blacklistMap, Foo, GnuGpl3Id)
    /\ EntriesOf(blacklistMap, Foo, GnuGpl3Id)
         = << [repo |-> RepoA, version |-> V1], [repo |-> RepoA, version |-> V1],
              [repo |-> RepoB, version |-> V1] >>

-----------------------------------------------------------------------------
(* C6 *)

\* The list of Repository Results in the order p.
Permuted(results, p) == [i \in 1..Len(results) |-> results[p[i]]]

\* C6: aggregating the Repository Results in any other order gives maps with
\* the same keys and, under each key, the same entries as often.
C6_AggregationOrderIndependent ==
    phase = "done" =>
        \A p \in Permutations(1..Len(pkgsByRepo)) :
            LET other == Aggregate(Permuted(pkgsByRepo, p), blacklist)
            IN /\ SameContent(other.blacklistMap, blacklistMap)
               /\ SameContent(other.noLicenseMap, noLicenseMap)

\* C6, witness: a finished run whose maps, aggregated in another order of
\* the repositories, come out different (in order only).
C6_Witness ==
    /\ phase = "done"
    /\ \E p \in Permutations(1..Len(pkgsByRepo)) :
         LET other == Aggregate(Permuted(pkgsByRepo, p), blacklist)
         IN /\ other.blacklistMap # blacklistMap
            /\ other.noLicenseMap # noLicenseMap

-----------------------------------------------------------------------------
(* C7 *)

\* doc starts with its banner, holds a section exactly when its map has
\* packages, the blacklisted one first, and is the banner alone when neither
\* has.
WellAssembled(doc, banner, blackHeader, missingHeader) ==
    /\ StartsWith(doc, banner)
    /\ Contains(doc, blackHeader) <=> blacklistMap # <<>>
    /\ Contains(doc, missingHeader) <=> noLicenseMap # <<>>
    /\ (blacklistMap # <<>> /\ noLicenseMap # <<>>) =>
         IndexOf(doc, blackHeader) < IndexOf(doc, missingHeader)
    /\ (blacklistMap = <<>> /\ noLicenseMap = <<>>) => doc = banner

\* C7: a run that reaches rendering prints one Markdown document; it and
\* the chat document are well assembled.
C7_DocumentsWellAssembled ==
    phase = "done" =>
        /\ Len(stdout) = 1
        /\ WellAssembled(stdout[1], MdBanner, MdHeader(Blacklisted), MdHeader(Missing))
        /\ WellAssembled(slackMdProblems, SlackBanner,
                         SlackHeader(Blacklisted), SlackHeader(Missing))
        /\ webhookPosts = IF slackWebhookUrl THEN <<slackMdProblems>> ELSE <<>>

\* C7, witness: both sections are in the printed document.
C7_Witness ==
    /\ phase = "done"
    /\ blacklistMap # <<>>
    /\ noLicenseMap # <<>>
    /\ Contains(stdout[1], MdHeader(Blacklisted))
    /\ Contains(stdout[1], MdHeader(Missing))

\* C7, the other case: neither map has a package and the banner alone is
\* printed.
C7_BannerOnly ==
    /\ phase = "done"
    /\ blacklistMap = <<>>
    /\ noLicenseMap = <<>>
    /\ stdout = <<MdBanner>>

-----------------------------------------------------------------------------
(* C8 *)

\* The rows of both renderings of a map carry, for each license of each
\* package, that license and that pair's occurrences; the package name is on
\* the first row of the package only.
SameRows(map) ==
    LET pkgs == arraifyMap(map)
    IN \A i \in 1..Len(pkgs) : \A j \in 1..Len(pkgs[i].licenses) :
         LET l == pkgs[i].licenses[j]
             md == MdRows(pkgs[i])[j]
             chat == SlackRows(pkgs[i])[j]
         IN /\ Contains(md, l.license) /\ Contains(chat, l.license)
            /\ \A k \in 1..Len(l.repos) :
                 /\ Contains(md, MdRepo(l.repos[k]))
                 /\ Contains(chat, SlackRepo(l.repos[k]))
            /\ Contains(md, pkgs[i].name) <=> j = 1
            /\ Contains(chat, pkgs[i].name) <=> j = 1

\* C8: the chat rendering of each map carries what its Markdown rendering
\* carries: every license of every package, with its occurrences.
C8_ChatCarriesEveryLicense ==
    phase = "done" => SameRows(blacklistMap) /\ SameRows(noLicenseMap)

-----------------------------------------------------------------------------
(* C9 *)

\* C9: once the SBOM of a repository has arrived and its lookups are over,
\* the repository has its result: one finding per entry that has a name and
\* whose versionInfo is not "main", in SBOM order, with "Missing version
\* data" for an absent versionInfo.
C9_OneFindingPerKeptEntry ==
    \A r \in Repos :
        (fetchSt[r] = "ok" /\ \A i \in DOMAIN lookupSt[r] : lookupSt[r][i] # "pending") =>
            LET named == SelectSeq(sboms[r],
                            LAMBDA e : /\ e.name.some /\ e.name.val # <<>>
                                       /\ e.versionInfo # Some(Main))
            IN /\ repoSt[r] = "fulfilled"
               /\ repoValues[r].filled
               /\ repoValues[r].val.repo = orgRepos[r]
               /\ Len(repoValues[r].val.packages) = Len(named)
               /\ \A i \in 1..Len(named) :
                    /\ repoValues[r].val.packages[i].name = named[i].name.val
                    /\ repoValues[r].val.packages[i].version
                         = IF named[i].versionInfo.some THEN named[i].versionInfo.val
                           ELSE MissingVersionData

-----------------------------------------------------------------------------
(* C10 *)

\* C10: nothing is inserted or rendered before every SBOM request and every
\* lookup is over, and what a run reports is what ingesting one repository
\* and one package at a time reports, however the completions interleaved.
C10_FanInIsRaceFree ==
    /\ phase \in {"ingest", "joined", "error"} => NothingReported
    /\ phase \in {"joined", "done"} =>
         \A r \in Repos :
            /\ fetchSt[r] = "ok"
            /\ \A i \in DOMAIN lookupSt[r] : lookupSt[r][i] # "pending"
    /\ phase = "done" =>
         LET maps == Aggregate(SequentialIngest, blacklist)
         IN /\ pkgsByRepo = SequentialIngest
            /\ blacklistMap = maps.blacklistMap
            /\ noLicenseMap = maps.noLicenseMap
            /\ stdout = <<mdProblemsOf(maps)>>
            /\ slackMdProblems = slackMdProblemsOf(maps)
            /\ webhookPosts = IF slackWebhookUrl THEN <<slackMdProblemsOf(maps)>> ELSE <<>>

\* C10, witness: a run reported after some promise resolved before one that precedes it in
\* its Promise.all, with packages in both maps.
C10_Witness ==
    /\ phase = "done"
    /\ raced
    /\ blacklistMap # <<>>
    /\ noLicenseMap # <<>>

====
